---- MODULE Spec2Model ----
(***************************************************************************)
(* AnaerobicCSTR (qsdsan/sanunits/_anaerobic_reactors.py): the reactor's   *)
(* configuration, its state and derivative buffers, the two headspace      *)
(* pressure closures and the compiled derivative function dy_dt.           *)
(*                                                                         *)
(* Numbers are exact rationals <<numerator, denominator>> (denominator     *)
(* > 0, lowest terms); Python's None is the empty tuple.                   *)
(***************************************************************************)
EXTENDS Integers, Sequences, FiniteSets, TLC

VARIABLES
    _model,        \* CSTR._model: "None" or the name of a kinetic model
    T,             \* operation temperature [K]
    _n_gas,        \* None or <<k>>
    _gas_cmp_idx,  \* None or <<component indices of the biogas IDs>>
    _state_keys,   \* None or the list of state keys
    _S_vapor,      \* None or a rational
    _P_gas,        \* headspace_P
    _P_atm,        \* external_P
    _k_p,          \* pipe_resistance
    _fixed_P_gas,  \* fixed_headspace_P
    retain_cmps,   \* the constructor's retain_cmps, as component indices
    _f_retain,     \* retention fraction per component
    _exovars,      \* whether the unit has exogenous dynamic variables
    _q_gas,        \* cached gas outflow
    _state,        \* None or the state vector
    _dstate,       \* None or the derivative vector the reactor holds
    _ODE,          \* None or <<closure>>: what _compile_ODE captured
    liquid_dstate, \* outs[1].dstate: None or a vector
    gas_dstate,    \* outs[0].dstate: None or a vector
    liquid_state,  \* outs[1].state: None or a vector
    gas_state,     \* outs[0].state: None or a vector
    allocs,        \* per stream buffer, how many array objects it has been
    projected,     \* per projector, whether it has run to its end never,
                   \* once or more often (0, 1, 2)
    op,            \* the last operation called and its arguments
    err,           \* "none" or the exception the last operation raised
    ret,           \* the value the last operation returned (None if none)
    calls,         \* the calls and buffer writes of the last dy_dt, in order
    nops,          \* how many operations the reactor has been through
    if_capture_biogas, \* per decay unit, the attribute of that name
    if_N2O_emission,   \* per decay unit, the attribute of that name
    outs,          \* per decay unit, its outlet streams treated, biogas, CH4
                   \* and N2O
    ran,           \* per decay unit, None or <<the waste of its last _run>>,
                   \* None again once an attribute is set
    morris,        \* the call of morris_till_convergence: where it is, its
                   \* N_max, its loop variable n and the rows of cum_dct
    analysis,      \* the last call of morris_analysis or sobol_analysis:
                   \* None or its arguments, the table it analysed and the
                   \* exception it raised
    thickener,     \* the BeltThickener: its attributes, and the result of
                   \* the last read of N_thickener
    _indicators,   \* ImpactIndicator._indicators: names to indicators
    _default_data, \* ImpactIndicator._default_data: None or <<data>>
    heap,          \* the ImpactIndicator objects created, by identity: the
                   \* _ID of each, and the names set_synonym has registered
                   \* for it
    lca            \* the last ImpactIndicator operation: its arguments, the
                   \* registry before it, what it raised and returned

vars == <<_model, T, _n_gas, _gas_cmp_idx, _state_keys, _S_vapor, _P_gas,
          _P_atm, _k_p, _fixed_P_gas, retain_cmps, _f_retain, _exovars,
          _q_gas, _state, _dstate, _ODE, liquid_dstate, gas_dstate,
          liquid_state, gas_state, allocs, projected, op, err, ret, calls,
          nops, if_capture_biogas, if_N2O_emission, outs, ran, morris,
          analysis, thickener, _indicators, _default_data, heap, lca>>

\* groups of variables: what the model setter derives, what only the
\* constructor sets, and the outlet streams
layout == <<_n_gas, _gas_cmp_idx, _state_keys, _S_vapor>>
ctor == <<_P_atm, _k_p, retain_cmps, _f_retain, _exovars>>
streams == <<liquid_dstate, gas_dstate, liquid_state, gas_state, allocs,
             projected>>


\* the AnaerobicCSTR, the decay units, the sensitivity analysis
cstr == <<_model, T, _P_gas, _fixed_P_gas, _q_gas, _state, _dstate, _ODE,
          layout, ctor, streams, op, err, ret, calls, nops>>
decay == <<if_capture_biogas, if_N2O_emission, outs, ran>>
indicators == <<_indicators, _default_data, heap, lca>>
rest == <<analysis, thickener, indicators>>
others == <<decay, morris, rest>>

None == <<>>

(***************************************************************************)
(* Bounds of the model.                                                    *)
(***************************************************************************)
\* number of liquid components of the thermo package (at least 4: H2O and
\* the three biogas species of the ADM1-like model)
NCmps == 5
\* dy_dt is evaluated on the input vectors 0..MaxInput
MaxInput == 3
\* a run is at most MaxOps operations on the reactor
MaxOps == 6
\* ideal_gas_law is called on the arguments n/d, n in 0..MaxGasNum
MaxGasNum == 12
\* the decay units are run on the wastes 1..MaxWaste
MaxWaste == 3
\* morris_till_convergence is called with N_max in 2..MaxTraj
MaxTraj == 4
\* the result tables analysed have MaxRows rows
MaxRows == 2
\* the thickener's mixed inlet flows at up to 25*MaxFlow m3/hr
MaxFlow == 12
\* at most MaxIndicators ImpactIndicator objects are created
MaxIndicators == 4

(***************************************************************************)
(* Float arithmetic, as exact rationals.                                   *)
(***************************************************************************)
Abs(i) == IF i < 0 THEN -i ELSE i

RECURSIVE GCD(_, _)
GCD(a, b) == IF b = 0 THEN a ELSE GCD(b, a % b)

Rat(n, d) ==
    LET s == IF d < 0 THEN -1 ELSE 1
        g == GCD(Abs(n), Abs(d))
    IN  <<(s * n) \div g, (s * d) \div g>>

Num(i) == <<i, 1>>
Zero == Num(0)
One == Num(1)

RAdd(a, b) ==
    LET g == GCD(a[2], b[2])
        l == (a[2] \div g) * b[2]
    IN  Rat(a[1] * (l \div a[2]) + b[1] * (l \div b[2]), l)

RNeg(a) == <<-a[1], a[2]>>
RSub(a, b) == RAdd(a, RNeg(b))

RMul(a, b) ==
    LET g1 == GCD(Abs(a[1]), b[2])
        g2 == GCD(Abs(b[1]), a[2])
    IN  Rat((a[1] \div g1) * (b[1] \div g2), (a[2] \div g2) * (b[2] \div g1))

\* b is not zero
RDiv(a, b) == RMul(a, IF b[1] < 0 THEN <<-b[2], -b[1]>> ELSE <<b[2], b[1]>>)

RPos(a) == a[1] > 0

\* sum(v) of a vector of rationals
RECURSIVE RSum(_)
RSum(v) == IF v = <<>> THEN Zero ELSE RAdd(v[1], RSum(Tail(v)))

\* a function on 1..n as the array of its values
Array(f) == f \o <<>>

\* a Python slice v[i:j] with 0 <= i (0-based, j exclusive, clipped)
Slice(v, i, j) ==
    LET hi == IF j > Len(v) THEN Len(v) ELSE j
    IN  IF i >= hi THEN <<>> ELSE Array([x \in 1..(hi - i) |-> v[i + x]])

\* v[-3:]
Last3(v) == Slice(v, IF Len(v) > 3 THEN Len(v) - 3 ELSE 0, Len(v))

\* the length numpy broadcasting gives two 1-D operands, -1 when it raises
BLen(a, b) == IF a = b THEN a ELSE IF a = 1 THEN b ELSE IF b = 1 THEN a ELSE -1

\* element i (1-based) of a 1-D operand broadcast to a longer length
BAt(v, i) == IF Len(v) = 1 THEN v[1] ELSE v[i]

(***************************************************************************)
(* The external collaborators: components, kinetic models, Psat.           *)
(***************************************************************************)
Cmps == 1..NCmps
H2O == 1

\* (cmps.i_mass / cmps.chem_MW)[i]
I_mass_over_MW(i) ==
    IF i = 2 THEN <<1, 16>> ELSE IF i = 3 THEN <<1, 64>> ELSE IF i = 4 THEN One
    ELSE <<1, 18>>

\* kinetic models: model._biogas_IDs as component indices, and the length
\* of the rate vector rate_function returns
\* ("adm1": three biogas species, four reactions; "nogas": none, one)
Models == {"adm1", "nogas"}
BiogasIdx(m) == IF m = "adm1" THEN <<2, 3, 4>> ELSE <<>>
NRates(m) == IF m = "adm1" THEN 4 ELSE 1

\* self._R
R == <<16629, 200000>>

\* operation temperatures [K]
Temps == {Num(300), Num(310)}

\* components.H2O.Psat(T) [Pa]
Psat(t) == IF t = Num(300) THEN Num(3537) ELSE Num(6231)

\* auom('Pa').conversion_factor('bar')
PaToBar == <<1, 100000>>

\* constructor defaults
V_liq == 3400
V_gas == 300
Fraction_retain == <<19, 20>>

(***************************************************************************)
(* Test vectors: what the integrator and the inlet hand to the reactor.    *)
(***************************************************************************)
Inputs == 0..MaxInput

\* inlet concentrations [mg/L] and flow of QC_ins[0], and dQC_ins[0, -1]
InConc(x) == Array([i \in Cmps |-> Num(500 * ((x + i + 1) % 3))])
InQ(x) == Num(1 + ((x \div 3) % 2))
InDQ(x) == Num(x % 2)

\* the state snapshot QC of length len: liquid, then gas, then Q
QCVec(x, len) ==
    Array([j \in 1..len |->
        IF j = len THEN Num(1 + (x % 3))
        ELSE IF j <= NCmps THEN Num((x \div 2) * j)
        ELSE IF j = NCmps + 2 THEN Zero
        ELSE Num(((x + 1) \div 3) % 2)])

\* model.rate_function(QC): zero rates on even inputs
Rhos(m, x) == Array([j \in 1..NRates(m) |-> Num((x % 2) * j)])

\* model.stoichio_eval(): reaction j consumes component j, makes j+1
Stoichio(m) ==
    Array([j \in 1..NRates(m) |->
        Array([i \in Cmps |->
            IF i = j THEN Num(-1) ELSE IF i = j + 1 THEN One ELSE Zero])])

\* np.dot(M_stoichio.T, rhos)
RECURSIVE DotCol(_, _, _, _)
DotCol(M, rhos, i, j) ==
    IF j = 0 THEN Zero
    ELSE RAdd(RMul(M[j][i], rhos[j]), DotCol(M, rhos, i, j - 1))

DotT(M, rhos) == Array([i \in Cmps |-> DotCol(M, rhos, i, Len(rhos))])

(***************************************************************************)
(* AnaerobicCSTR: helpers and properties.                                  *)
(***************************************************************************)
\* Python truth value of an optional float
Truthy(v) == v # None /\ v[1] # 0

ideal_gas_law(p, S) ==
    IF Truthy(p) THEN RDiv(RDiv(p, R), T)
    ELSE IF Truthy(S) THEN RMul(RMul(S, R), T)
    ELSE None

p_vapor(convert_to_bar) ==
    LET p == Psat(T) IN IF convert_to_bar THEN RMul(p, PaToBar) ELSE p

\* self._f_retain of the constructor
FRetain(retained, fraction_retain) ==
    Array([i \in Cmps |-> IF i \in retained THEN fraction_retain ELSE Zero])

\* list(components.IDs) + [ID+'_gas' for ID in biogas IDs] + ['Q']
StateKeys(m) ==
    [i \in Cmps |-> <<"cmp", i>>]
        \o [j \in 1..Len(BiogasIdx(m)) |-> <<"gas", BiogasIdx(m)[j]>>]
        \o << <<"Q", 0>> >>

\* (cmps.i_mass / cmps.chem_MW)[self._gas_cmp_idx]
Gas_mass2mol_conversion(idx) ==
    Array([j \in 1..Len(idx) |-> I_mass_over_MW(idx[j])])

\* (the initial state without its headspace entries)
InitStateVec_NoGas(Cs, n_gas, Q) == Cs \o <<Q>>

\* np.append(Cs, [0]*n_gas + [Q])
InitStateVec(Cs, n_gas, Q) == Cs \o [j \in 1..n_gas |-> Zero] \o <<Q>>

\* an operation that calls nothing of the kinetic model and returns nothing
Quiet(name, arg, e) ==
    /\ nops < MaxOps
    /\ nops' = nops + 1
    /\ op' = <<name, arg>>
    /\ err' = e
    /\ ret' = None
    /\ calls' = <<>>

(***************************************************************************)
(* AnaerobicBaffledReactor and AnaerobicDigestion: streams and parameters. *)
(***************************************************************************)
Units == {"AnaerobicBaffledReactor", "AnaerobicDigestion"}

\* a gas outlet as the mass flow [kg/hr] of each species it can carry
Species == {"CH4", "N2O"}
EmptyStream == [sp \in Species |-> Zero]

\* the wastes fed to the units: COD and TN [mg/L], F_vol [m3/hr], NH3 and
\* NonNH3 and the degraded component OtherSS [kg/hr]
Wastes == 1..MaxWaste
Waste(w) ==
    [COD |-> Num(500 * w), F_vol |-> Num(w), TN |-> Num(100 * w),
     NH3 |-> Rat(w - 1, 100), NonNH3 |-> Rat(w, 10), OtherSS |-> Num(w)]

\* the parameters the constructors load from the units' data files
COD_removal == <<4, 5>>
MCF_decay == <<1, 2>>
max_CH4_emission == <<1, 4>>
N_removal == <<1, 10>>
N_max_decay == <<4, 5>>
N2O_EF_decay == <<1, 2000>>

\* Decay.first_order_decay(k=decay_k_N, t=tau/365, max_decay=N_max_decay)
First_order_decay == <<1, 5>>

\* Decay.allocate_N_removal(tot_red, preferred_N): <<NH3_rmd, NonNH3_rmd>>
Allocate_N_removal(tot_red, preferred_N) ==
    IF ~RPos(preferred_N) THEN <<Zero, tot_red>>
    ELSE IF RPos(RSub(preferred_N, tot_red)) THEN <<tot_red, Zero>>
    ELSE <<preferred_N, RSub(tot_red, preferred_N)>>

(***************************************************************************)
(* Construction.                                                           *)
(***************************************************************************)
\* __init__(model=None, T=300) with the default pressures and resistance;
\* retain_cmps and the exogenous variables are the caller's
Init ==
    /\ _model = "None"
    /\ T = Num(300)
    /\ _q_gas = Zero
    /\ _n_gas = None
    /\ _gas_cmp_idx = None
    /\ _state_keys = None
    /\ _S_vapor = None
    /\ _P_gas = <<1013, 1000>>
    /\ _P_atm = <<1013, 1000>>
    /\ _k_p = Num(50000)
    /\ _fixed_P_gas = FALSE
    /\ retain_cmps \in {{}, {3}}
    /\ _f_retain = FRetain(retain_cmps, Fraction_retain)
    /\ _exovars = (retain_cmps # {})
    /\ _state = None
    /\ _dstate = None
    /\ _ODE = None
    /\ liquid_dstate = None
    /\ gas_dstate = None
    /\ liquid_state = None
    /\ gas_state = None
    /\ allocs = [liquid_state |-> 0, gas_state |-> 0,
                 liquid_dstate |-> 0, gas_dstate |-> 0]
    /\ projected = [_update_state |-> 0, _update_dstate |-> 0]
    /\ op = <<"__init__", None>>
    /\ err = "none"
    /\ ret = None
    /\ calls = <<>>
    /\ nops = 0
    /\ if_capture_biogas = [u \in Units |-> TRUE]
    /\ if_N2O_emission = [u \in Units |-> FALSE]
    /\ outs = [u \in Units |->
                  [treated |-> None, biogas |-> EmptyStream,
                   CH4 |-> EmptyStream, N2O |-> EmptyStream]]
    /\ ran = [u \in Units |-> None]
    /\ morris = [pc |-> "idle", N_max |-> 0, n |-> 0, rows |-> <<>>]
    /\ analysis = None
    /\ thickener = [max_capacity |-> 100, power_demand |-> <<41, 10>>,
                    F_vol |-> 0, _N_thickener |-> None,
                    design_results |-> None,
                    baseline_purchase_costs |-> None,
                    power_utility |-> Zero, read |-> None]
    /\ _indicators = <<>>
    /\ _default_data = None
    /\ heap = <<>>
    /\ lca = None

(***************************************************************************)
(* Configuration setters.                                                  *)
(***************************************************************************)
\* model.setter
SetModel(m) ==
    /\ _model' = m
    /\ IF m # "None"
       THEN /\ _S_vapor' = ideal_gas_law(p_vapor(TRUE), None)
            /\ _n_gas' = <<Len(BiogasIdx(m))>>
            /\ _state_keys' = StateKeys(m)
            /\ _gas_cmp_idx' = <<BiogasIdx(m)>>
       ELSE UNCHANGED <<_S_vapor, _n_gas, _state_keys, _gas_cmp_idx>>
    /\ Quiet("configure", None, "none")
    /\ UNCHANGED <<T, _P_gas, _fixed_P_gas, _q_gas, _state, _dstate, _ODE,
                   ctor, others, streams>>

\* self.T = T
SetT(t) ==
    /\ T' = t
    /\ Quiet("configure", None, "none")
    /\ UNCHANGED <<_model, _P_gas, _fixed_P_gas, _q_gas, _state, _dstate,
                   _ODE, layout, ctor, others, streams>>

\* headspace_P.setter
SetHeadspaceP(P) ==
    /\ _P_gas' = P
    /\ Quiet("configure", None, "none")
    /\ UNCHANGED <<_model, T, _fixed_P_gas, _q_gas, _state, _dstate, _ODE,
                   layout, ctor, others, streams>>

\* fixed_headspace_P.setter
SetFixedHeadspaceP(b) ==
    /\ _fixed_P_gas' = b
    /\ Quiet("configure", None, "none")
    /\ UNCHANGED <<_model, T, _P_gas, _q_gas, _state, _dstate, _ODE, layout,
                   ctor, others, streams>>

\* a call of ideal_gas_law(p=p) or ideal_gas_law(S=S)
IdealGasLaw(p, S) ==
    /\ op' = <<IF p # None THEN "ideal_gas_law_p" ELSE "ideal_gas_law_S",
               IF p # None THEN p ELSE S>>
    /\ err' = "none"
    /\ ret' = ideal_gas_law(p, S)
    /\ calls' = <<>>
    /\ UNCHANGED <<nops, _model, T, _P_gas, _fixed_P_gas, _q_gas, _state,
                   _dstate, _ODE, layout, ctor, others, streams>>

(***************************************************************************)
(* The state vector.                                                       *)
(***************************************************************************)
\* the 1-D arrays handed to the state setter
\* (of the length of either model's layout, or one more)
StateArgs ==
    {Array([j \in 1..(NCmps + Len(BiogasIdx(m)) + 1 + d) |-> Num(7 * j)]) :
        m \in Models, d \in {0, 1}}

\* state.setter
SetState(arr) ==
    /\ IF _state_keys = None
       THEN /\ Quiet("state", None, "TypeError")
            /\ UNCHANGED _state
       ELSE IF Len(arr) # Len(_state_keys)
       THEN /\ Quiet("state", None, "ValueError")
            /\ UNCHANGED _state
       ELSE /\ Quiet("state", None, "none")
            /\ _state' = arr
    /\ UNCHANGED <<_model, T, _P_gas, _fixed_P_gas, _q_gas, _dstate, _ODE,
                   layout, ctor, others, streams>>

\* (the concentrations taken without the unit conversion)
ScaledConc_Unscaled(conc) == conc

\* inf.conc * 1e-3 (or self._concs * 1e-3)
ScaledConc(conc) ==
    Array([i \in 1..Len(conc) |-> RMul(conc[i], <<1, 1000>>)])

\* the closure of a compiled dy_dt keeps the buffer it captured when the
\* reactor is given a new one
Detach(ode, old) ==
    IF ode # None /\ ode[1].buf_is = "shared"
    THEN <<[ode[1] EXCEPT !.buf_is = "detached", !.buf = old]>>
    ELSE ode

\* _init_state, on the inlet whose concentrations and flow are those of input x
InitState(x) ==
    /\ IF _n_gas = None
       THEN /\ Quiet("_init_state", <<x>>, "TypeError")
            /\ UNCHANGED <<_state, _dstate, _ODE>>
       ELSE LET new == InitStateVec(ScaledConc(InConc(x)), _n_gas[1], InQ(x))
            IN  /\ Quiet("_init_state", <<x>>, "none")
                /\ _state' = new
                /\ _dstate' = Array([j \in 1..Len(new) |-> Zero])
                /\ _ODE' = Detach(_ODE, _dstate)
    /\ UNCHANGED <<_model, T, _P_gas, _fixed_P_gas, _q_gas, layout, ctor, others,
                   streams>>

(***************************************************************************)
(* The headspace pressure closures.                                        *)
(***************************************************************************)
\* the attributes and properties an AnaerobicCSTR has
Attributes ==
    {"V_gas", "T", "_q_gas", "_n_gas", "_gas_cmp_idx", "_state_keys",
     "_S_vapor", "model", "_biogas", "headspace_P", "_P_gas", "external_P",
     "_P_atm", "pipe_resistance", "_k_p", "fixed_headspace_P", "_fixed_P_gas",
     "_f_retain", "V_liq", "state", "_state", "_dstate", "ODE", "_ODE",
     "DO_ID", "aeration", "split", "_R", "components"}

\* rhoTs * gas_mass2mol_conversion, both 1-D
Products(a, b) ==
    Array([j \in 1..BLen(Len(a), Len(b)) |-> RMul(BAt(a, j), BAt(b, j))])

\* f_q_gas_fixed_P_headspace: [err, P, q], P what self._P_gas is afterwards
f_q_gas_fixed_P_headspace(rhoTs, S_gas, Tc) ==
    LET gas_mass2mol_conversion == Gas_mass2mol_conversion(_gas_cmp_idx[1])
        den == RSub(_P_gas, p_vapor(TRUE))
    IN  IF "P_gas" \notin Attributes
        THEN [err |-> "AttributeError", P |-> _P_gas, q |-> _q_gas]
        ELSE IF den[1] = 0
        THEN [err |-> "ZeroDivisionError", P |-> _P_gas, q |-> _q_gas]
        ELSE IF BLen(Len(rhoTs), Len(gas_mass2mol_conversion)) = -1
        THEN [err |-> "ValueError", P |-> _P_gas, q |-> _q_gas]
        ELSE [err |-> "none", P |-> _P_gas,
              q |-> RMul(RMul(RDiv(RMul(R, Tc), den), Num(V_liq)),
                         RSum(Products(rhoTs, gas_mass2mol_conversion)))]

\* (the variable closure without the vapour pressure)
f_q_gas_var_P_headspace_NoVapor(rhoTs, S_gas, Tc) ==
    LET p_gas == Array([j \in 1..Len(S_gas) |-> RMul(RMul(S_gas[j], R), Tc)])
        P == RSum(p_gas)
    IN  [err |-> "none", P |-> P, q |-> RMul(_k_p, RSub(P, _P_atm))]

\* f_q_gas_var_P_headspace: [err, P, q]
f_q_gas_var_P_headspace(rhoTs, S_gas, Tc) ==
    LET p_gas == Array([j \in 1..Len(S_gas) |-> RMul(RMul(S_gas[j], R), Tc)])
        P == RAdd(RSum(p_gas), p_vapor(TRUE))
    IN  [err |-> "none", P |-> P, q |-> RMul(_k_p, RSub(P, _P_atm))]

(***************************************************************************)
(* _compile_ODE and the derivative function dy_dt.                         *)
(***************************************************************************)
\* what _compile_ODE binds into dy_dt; buf_is says whether the captured
\* _dstate is None, the reactor's current buffer or an earlier one
Closure(kind) ==
    [kind |-> kind,
     model |-> _model,
     f_rtn |-> _f_retain,
     n_gas |-> IF kind = "AnaerobicCSTR" THEN _n_gas[1] ELSE 0,
     T |-> T,
     conv |-> IF kind = "AnaerobicCSTR"
              THEN Gas_mass2mol_conversion(_gas_cmp_idx[1]) ELSE <<>>,
     hasexo |-> _exovars,
     fixed |-> IF kind = "AnaerobicCSTR" THEN _fixed_P_gas ELSE FALSE,
     buf_is |-> IF _dstate = None THEN "None" ELSE "shared",
     buf |-> None]

Compiled == <<Closure(IF _model = "None" THEN "CSTR" ELSE "AnaerobicCSTR")>>

\* _compile_ODE
CompileODE ==
    /\ _ODE' = Compiled
    /\ Quiet("configure", None, "none")
    /\ UNCHANGED <<_model, T, _P_gas, _fixed_P_gas, _q_gas, _state, _dstate,
                   layout, ctor, others, streams>>

\* (the accessor compiling anew on every access)
ODE_Recompiles ==
    /\ _ODE' = Compiled
    /\ Quiet("configure", None, "none")
    /\ UNCHANGED <<_model, T, _P_gas, _fixed_P_gas, _q_gas, _state, _dstate,
                   layout, ctor, others, streams>>

\* the ODE property
ODE ==
    /\ _ODE' = IF _ODE = None THEN Compiled ELSE _ODE
    /\ Quiet("configure", None, "none")
    /\ UNCHANGED <<_model, T, _P_gas, _fixed_P_gas, _q_gas, _state, _dstate,
                   layout, ctor, others, streams>>

\* buf[i:i+n] = vals (vals of length n or 1), i 0-based
WriteSlice(buf, i, n, vals) ==
    Array([j \in 1..Len(buf) |->
        IF j > i /\ j <= i + n THEN BAt(vals, j - i) ELSE buf[j]])

\* buf[-1] = v
WriteLast(buf, v) == [buf EXCEPT ![Len(buf)] = v]

\* (the rates evaluated before the parameters are refreshed)
KineticCalls_RatesFirst == <<"rate_function", "params_eval", "stoichio_eval">>

\* the kinetic model's calls of one evaluation, in order
KineticCalls == <<"params_eval", "stoichio_eval", "rate_function">>

\* (the liquid balance with only the outflow divided by V_liq)
LiquidBalance_InflowNotDivided(Q_in, S_in, Q, S_liq, f_rtn, react) ==
    Array([i \in Cmps |->
        RAdd(RSub(RMul(Q_in, S_in[i]),
                  RDiv(RMul(RMul(Q, S_liq[i]), RSub(One, f_rtn[i])),
                       Num(V_liq))),
             react[i])])

\* (the liquid balance with retention applied to the inflow as well)
LiquidBalance_RetainInflow(Q_in, S_in, Q, S_liq, f_rtn, react) ==
    Array([i \in Cmps |->
        RAdd(RDiv(RMul(RSub(RMul(Q_in, S_in[i]), RMul(Q, S_liq[i])),
                       RSub(One, f_rtn[i])),
                  Num(V_liq)),
             react[i])])

\* (Q_in*S_in - Q*S_liq*(1-f_rtn))/V_liq + np.dot(M_stoichio.T, rhos)
LiquidBalance(Q_in, S_in, Q, S_liq, f_rtn, react) ==
    Array([i \in Cmps |->
        RAdd(RDiv(RSub(RMul(Q_in, S_in[i]),
                       RMul(RMul(Q, S_liq[i]), RSub(One, f_rtn[i]))),
                  Num(V_liq)),
             react[i])])

\* - q_gas*S_gas/V_gas + rhos[-3:] * V_liq/V_gas * gas_mass2mol_conversion
GasBalance(q_gas, S_gas, rhoTs, conv) ==
    LET made == Array([j \in 1..BLen(Len(rhoTs), Len(conv)) |->
                    RMul(RDiv(RMul(BAt(rhoTs, j), Num(V_liq)), Num(V_gas)),
                         BAt(conv, j))])
    IN  Array([j \in 1..BLen(Len(S_gas), Len(made)) |->
            RAdd(RNeg(RDiv(RMul(q_gas, BAt(S_gas, j)), Num(V_gas))),
                 BAt(made, j))])

\* whether the gas balance or its assignment to a slice of length n raises
GasShapesRaise(n_S_gas, n_rhoTs, n_conv, n) ==
    LET made == BLen(n_rhoTs, n_conv)
        all == IF made = -1 THEN -1 ELSE BLen(n_S_gas, made)
    IN  all = -1 \/ (all # n /\ all # 1)

\* one evaluation dy_dt(t, QC_ins, QC, dQC_ins) of the function compiled by
\* AnaerobicCSTR._compile_ODE as closure c, on the input x with the buffer
\* buf0 (None if it captured None): the exception it raises, the buffer,
\* self._P_gas and self._q_gas afterwards, its calls and writes in order,
\* and whether it reached _update_dstate
Dy_dt(c, x, QC, buf0) ==
    LET n_cmps == NCmps
        S_liq == Slice(QC, 0, n_cmps)
        S_gas == Slice(QC, n_cmps, n_cmps + c.n_gas)
        Q == QC[Len(QC)]
        S_in == ScaledConc(InConc(x))
        Q_in == InQ(x)
        pre == (IF c.hasexo THEN <<"eval_exo_dynamic_vars">> ELSE <<>>)
                   \o KineticCalls
        rhos == Rhos(c.model, x)
        liq == LiquidBalance(Q_in, S_in, Q, S_liq, c.f_rtn,
                             DotT(Stoichio(c.model), rhos))
        buf1 == WriteSlice(buf0, 0, n_cmps, liq)
        cl == IF c.fixed
              THEN f_q_gas_fixed_P_headspace(Last3(rhos), S_gas, c.T)
              ELSE f_q_gas_var_P_headspace(Last3(rhos), S_gas, c.T)
        n_slice == Len(Slice(buf0, n_cmps, n_cmps + c.n_gas))
        buf2 == WriteSlice(buf1, n_cmps, n_slice,
                           GasBalance(cl.q, S_gas, Last3(rhos), c.conv))
    IN  IF buf0 = None
        THEN [err |-> "TypeError", buf |-> None, P |-> _P_gas, q |-> _q_gas,
              calls |-> pre, upd |-> FALSE]
        ELSE IF cl.err # "none"
        THEN [err |-> cl.err, buf |-> buf1, P |-> _P_gas, q |-> _q_gas,
              calls |-> pre \o <<"write_liquid", "f_qgas">>, upd |-> FALSE]
        ELSE IF GasShapesRaise(Len(S_gas), Len(Last3(rhos)), Len(c.conv), n_slice)
        THEN [err |-> "ValueError", buf |-> buf1, P |-> cl.P, q |-> cl.q,
              calls |-> pre \o <<"write_liquid", "f_qgas">>, upd |-> FALSE]
        ELSE [err |-> "none", buf |-> WriteLast(buf2, InDQ(x)),
              P |-> cl.P, q |-> cl.q,
              calls |-> pre \o <<"write_liquid", "f_qgas", "write_gas",
                                 "write_Q", "_update_dstate">>,
              upd |-> TRUE]

\* the same for the function CSTR._compile_ODE compiles for a reactor
\* without a kinetic model: flow-through, no reaction
CSTR_dy_dt(c, x, QC, buf0) ==
    LET C == Slice(QC, 0, Len(QC) - 1)
        Q == QC[Len(QC)]
        n == BLen(NCmps, Len(C))
        flow == Array([i \in 1..n |->
                    RDiv(RSub(RMul(InQ(x), BAt(InConc(x), i)),
                              RMul(Q, BAt(C, i))), Num(V_liq))])
    IN  IF buf0 = None
        THEN [err |-> "TypeError", buf |-> None, P |-> _P_gas, q |-> _q_gas,
              calls |-> <<>>, upd |-> FALSE]
        ELSE IF n = -1 \/ (n # Len(buf0) - 1 /\ n # 1)
        THEN [err |-> "ValueError", buf |-> WriteLast(buf0, InDQ(x)),
              P |-> _P_gas, q |-> _q_gas, calls |-> <<"write_Q">>,
              upd |-> FALSE]
        ELSE [err |-> "none",
              buf |-> WriteSlice(WriteLast(buf0, InDQ(x)), 0, Len(buf0) - 1, flow),
              P |-> _P_gas, q |-> _q_gas,
              calls |-> <<"write_Q", "write_liquid", "_update_dstate">>,
              upd |-> TRUE]

\* (a new array object on every projection)
Allocated_Always(cur, n) == n + 1

\* if stream.state is None: stream.state = <new array>, else written in
\* place: how many array objects the buffer has been, n so far
Allocated(cur, n) == IF cur = None THEN n + 1 ELSE n

\* one more run of a projector
Again(n) == IF n < 2 THEN n + 1 ELSE 2

\* _update_dstate on the reactor's buffer arr: the liquid stream's dstate
LiquidDstate(arr) ==
    Array([i \in 1..(NCmps + 1) |->
        IF i <= NCmps
        THEN RMul(RMul(arr[i], RSub(One, _f_retain[i])), Num(1000))
        ELSE arr[Len(arr)]])

\* self._ODE(t, QC_ins, QC, dQC_ins) on the input x, QC of the state's length
Call_dy_dt(c, x) ==
    LET QC == QCVec(x, Len(_state))
        buf0 == IF c.buf_is = "shared" THEN _dstate
                ELSE IF c.buf_is = "detached" THEN c.buf ELSE None
    IN  IF c.kind = "AnaerobicCSTR" THEN Dy_dt(c, x, QC, buf0)
        ELSE CSTR_dy_dt(c, x, QC, buf0)

\* the integrator evaluates the compiled function at the input x and the
\* state snapshot QC it holds
Eval(x) ==
    /\ _ODE # None
    /\ _state # None
    /\ \E r \in {Call_dy_dt(_ODE[1], x)} :
       LET c == _ODE[1]
           arr == IF c.buf_is = "shared" THEN r.buf ELSE _dstate
       IN  /\ _dstate' = arr
           /\ _ODE' = IF c.buf_is = "detached"
                      THEN <<[c EXCEPT !.buf = r.buf]>> ELSE _ODE
           /\ _P_gas' = r.P
           /\ _q_gas' = r.q
           /\ IF r.upd
              THEN /\ liquid_dstate' = LiquidDstate(arr)
                   /\ gas_dstate' = IF gas_dstate = None
                                    THEN Array([i \in 1..(NCmps + 1) |-> Zero])
                                    ELSE gas_dstate
                   /\ allocs' = [allocs EXCEPT
                          !.liquid_dstate = Allocated(liquid_dstate, @),
                          !.gas_dstate = Allocated(gas_dstate, @)]
                   /\ projected' = [projected EXCEPT
                          !._update_dstate = Again(@)]
              ELSE UNCHANGED <<liquid_dstate, gas_dstate, allocs, projected>>
           /\ UNCHANGED <<liquid_state, gas_state>>
           /\ nops < MaxOps
           /\ nops' = nops + 1
           /\ op' = <<"dy_dt", <<x>>>>
           /\ err' = r.err
           /\ ret' = None
           /\ calls' = r.calls
    /\ UNCHANGED <<_model, T, _fixed_P_gas, _state, layout, ctor, others>>

(***************************************************************************)
(* _update_state: the state projected onto the outlet streams.             *)
(***************************************************************************)
\* np.append(y[:n_cmps]*(1-f_rtn)*1e3, y[-1])
LiquidState(y) ==
    Array([i \in 1..(NCmps + 1) |->
        IF i <= NCmps
        THEN RMul(RMul(y[i], RSub(One, _f_retain[i])), Num(1000))
        ELSE y[Len(y)]])

\* (the gas stream's state without the vapour written at the H2O index)
GasState_NoVapor(g0, y) ==
    LET idx == _gas_cmp_idx[1]
        vals == Slice(y, NCmps, NCmps + _n_gas[1])
        g1 == Array([i \in 1..(NCmps + 1) |->
                  IF \E j \in DOMAIN idx : idx[j] = i
                  THEN BAt(vals, CHOOSE j \in DOMAIN idx : idx[j] = i)
                  ELSE g0[i]])
        g3 == [g1 EXCEPT ![NCmps + 1] = _q_gas]
    IN  Array([i \in 1..(NCmps + 1) |->
            IF i <= NCmps
            THEN RMul(RDiv(g3[i], I_mass_over_MW(i)), Num(1000))
            ELSE g3[i]])

\* (the cached gas outflow added to the last entry of the gas stream)
GasState_AccumulatesFlow(g0, y) ==
    LET idx == _gas_cmp_idx[1]
        vals == Slice(y, NCmps, NCmps + _n_gas[1])
        g1 == Array([i \in 1..(NCmps + 1) |->
                  IF \E j \in DOMAIN idx : idx[j] = i
                  THEN BAt(vals, CHOOSE j \in DOMAIN idx : idx[j] = i)
                  ELSE g0[i]])
        g2 == [g1 EXCEPT ![H2O] = _S_vapor]
        g3 == [g2 EXCEPT ![NCmps + 1] = RAdd(@, _q_gas)]
    IN  Array([i \in 1..(NCmps + 1) |->
            IF i <= NCmps
            THEN RMul(RDiv(g3[i], I_mass_over_MW(i)), Num(1000))
            ELSE g3[i]])

\* the gas stream's state g0 after lines 468-471, y the reactor's state:
\* the headspace concentrations scattered to the biogas indices, _S_vapor at
\* H2O, _q_gas last, the components times chem_MW/i_mass*1e3
GasState(g0, y) ==
    LET idx == _gas_cmp_idx[1]
        vals == Slice(y, NCmps, NCmps + _n_gas[1])
        g1 == Array([i \in 1..(NCmps + 1) |->
                  IF \E j \in DOMAIN idx : idx[j] = i
                  THEN BAt(vals, CHOOSE j \in DOMAIN idx : idx[j] = i)
                  ELSE g0[i]])
        g2 == [g1 EXCEPT ![H2O] = _S_vapor]
        g3 == [g2 EXCEPT ![NCmps + 1] = _q_gas]
    IN  Array([i \in 1..(NCmps + 1) |->
            IF i <= NCmps
            THEN RMul(RDiv(g3[i], I_mass_over_MW(i)), Num(1000))
            ELSE g3[i]])

\* _update_state
UpdateState ==
    /\ IF _state = None
       THEN /\ Quiet("_update_state", None, "AttributeError")
            /\ UNCHANGED <<liquid_state, gas_state, allocs, projected>>
       ELSE LET g0 == IF gas_state = None
                      THEN Array([i \in 1..(NCmps + 1) |-> Zero])
                      ELSE gas_state
                raises ==
                    IF _n_gas = None THEN "TypeError"
                    ELSE LET k == Len(_gas_cmp_idx[1])
                             m == Len(Slice(_state, NCmps, NCmps + _n_gas[1]))
                         IN  IF k > 0 /\ m # k /\ m # 1
                             THEN "ValueError" ELSE "none"
            IN  /\ Quiet("_update_state", None, raises)
                /\ liquid_state' = LiquidState(_state)
                /\ gas_state' = IF raises = "none"
                                THEN GasState(g0, _state) ELSE g0
                /\ allocs' = [allocs EXCEPT
                       !.liquid_state = Allocated(liquid_state, @),
                       !.gas_state = Allocated(gas_state, @)]
                /\ projected' = IF raises = "none"
                                THEN [projected EXCEPT
                                         !._update_state = Again(@)]
                                ELSE projected
    /\ UNCHANGED <<_model, T, _P_gas, _fixed_P_gas, _q_gas, _state, _dstate,
                   _ODE, liquid_dstate, gas_dstate, layout, ctor, others>>

(***************************************************************************)
(* AnaerobicBaffledReactor._run and AnaerobicDigestion._run.               *)
(***************************************************************************)
\* the attributes if_capture_biogas and if_N2O_emission are plain attributes
SetCaptureBiogas(u, b) ==
    /\ if_capture_biogas' = [if_capture_biogas EXCEPT ![u] = b]
    /\ ran' = [ran EXCEPT ![u] = None]
    /\ UNCHANGED <<cstr, if_N2O_emission, outs, morris, rest>>

SetN2OEmission(u, b) ==
    /\ if_N2O_emission' = [if_N2O_emission EXCEPT ![u] = b]
    /\ ran' = [ran EXCEPT ![u] = None]
    /\ UNCHANGED <<cstr, if_capture_biogas, outs, morris, rest>>

\* COD_deg*MCF_decay*max_CH4_emission, COD_deg = _COD*F_vol/1e3*COD_removal
CH4_prcd(w) ==
    LET COD_deg == RMul(RDiv(RMul(Waste(w).COD, Waste(w).F_vol), Num(1000)),
                        COD_removal)
    IN  RMul(RMul(COD_deg, MCF_decay), max_CH4_emission)

\* (the produced CH4 assigned without emptying the other outlet)
CH4Outlets_NoEmpty(capture, biogas, CH4, prcd) ==
    IF capture
    THEN [biogas |-> [biogas EXCEPT !["CH4"] = prcd], CH4 |-> CH4]
    ELSE [biogas |-> biogas, CH4 |-> [CH4 EXCEPT !["CH4"] = prcd]]

\* if self.if_capture_biogas: biogas.imass['CH4'] = CH4_prcd; CH4.empty()
\* else: CH4.imass['CH4'] = CH4_prcd; biogas.empty()
CH4Outlets(capture, biogas, CH4, prcd) ==
    IF capture
    THEN [biogas |-> [biogas EXCEPT !["CH4"] = prcd], CH4 |-> EmptyStream]
    ELSE [biogas |-> EmptyStream, CH4 |-> [CH4 EXCEPT !["CH4"] = prcd]]

\* the nitrogen lost in the unit [kg/hr]
N_loss_tot(u, w) ==
    LET N_tot == RMul(RDiv(Waste(w).TN, Num(1000)), Waste(w).F_vol)
    IN  IF u = "AnaerobicBaffledReactor"
        THEN RMul(N_tot, N_removal)
        ELSE RMul(First_order_decay, N_tot)

\* the N2O in the N2O outlet when if_N2O_emission is set
N2O_emitted(u, w) ==
    IF u = "AnaerobicBaffledReactor"
    THEN RDiv(RMul(RMul(RMul(N_loss_tot(u, w), N_max_decay), N2O_EF_decay),
                   Num(44)), Num(28))
    ELSE RDiv(RMul(RMul(N_loss_tot(u, w), N2O_EF_decay), Num(44)), Num(28))

\* the treated stream: a copy of the waste with the COD and the degraded
\* components reduced, and with the nitrogen removed (in AnaerobicDigestion
\* only when if_N2O_emission is set)
Treated(u, w, N2O_emission) ==
    LET waste == Waste(w)
        rmd == Allocate_N_removal(N_loss_tot(u, w), waste.NH3)
        left == RSub(One, COD_removal)
        degraded == [waste EXCEPT !.COD = RMul(@, left),
                                  !.OtherSS = RMul(@, left)]
    IN  IF u = "AnaerobicBaffledReactor" \/ N2O_emission
        THEN [degraded EXCEPT !.NH3 = RSub(waste.NH3, rmd[1]),
                              !.NonNH3 = RSub(waste.NonNH3, rmd[2])]
        ELSE degraded

\* _run of the unit u on the waste w
Run(u, w) ==
    LET o == outs[u]
        gas == CH4Outlets(if_capture_biogas[u], o.biogas, o.CH4, CH4_prcd(w))
    IN  /\ outs' = [outs EXCEPT ![u] =
                        [treated |-> Treated(u, w, if_N2O_emission[u]),
                         biogas |-> gas.biogas,
                         CH4 |-> gas.CH4,
                         N2O |-> IF if_N2O_emission[u]
                                 THEN [o.N2O EXCEPT
                                          !["N2O"] = N2O_emitted(u, w)]
                                 ELSE EmptyStream]]
        /\ ran' = [ran EXCEPT ![u] = <<w>>]
        /\ UNCHANGED <<cstr, if_capture_biogas, if_N2O_emission, morris, rest>>

(***************************************************************************)
(* stats.morris_till_convergence.                                          *)
(***************************************************************************)
\* the metrics and parameters of the model analysed
Metrics == {"m1", "m2"}
Params == {"p1", "p2"}

\* threshold=0.1, and what one Morris analysis can give as
\* mu_star_conf/mu_star.max() of a parameter: below, at and above it
Threshold == <<1, 10>>
Ratios == {<<1, 20>>, <<1, 10>>, <<1, 5>>}
Analyses == [Metrics -> [Params -> Ratios]]

\* a > b for rationals
RGreater(a, b) == RPos(RSub(a, b))

\* False if (mu_star_conf/mu_star.max()>threshold).any() else True
Converged(si_m) == ~(\E p \in Params : RGreater(si_m[p], Threshold))

\* the row of cum_dct for n trajectories analysed with result si: per
\* metric the largest mu_star_conf/mu_star.max() over the parameters
Row(n, si) ==
    [n |-> n,
     worst |-> [m \in Metrics |->
                  CHOOSE r \in {si[m][p] : p \in Params} :
                      \A p \in Params : ~RGreater(si[m][p], r)]]

\* the call up to the loop: the samples of N_max trajectories, the first
\* two evaluated and analysed, their results stored as row 2
MorrisStart(N_max, si) ==
    /\ morris.pc = "idle"
    /\ morris' = [pc |-> IF 2 < N_max THEN "loop" ELSE "return",
                  N_max |-> N_max, n |-> 2, rows |-> <<Row(2, si)>>]
    /\ UNCHANGED <<cstr, decay, rest>>

\* one iteration of for n in range(2, N_max): one more trajectory evaluated,
\* all analysed, row n+1 stored, break when every metric has converged
MorrisIterate(si) ==
    /\ morris.pc = "loop"
    /\ LET all_converged == \A m \in Metrics : Converged(si[m])
       IN  morris' = [morris EXCEPT
               !.rows = Append(@, Row(morris.n + 1, si)),
               !.pc = IF all_converged \/ morris.n + 1 >= morris.N_max
                      THEN "return" ELSE "loop",
               !.n = IF all_converged \/ morris.n + 1 >= morris.N_max
                     THEN @ ELSE @ + 1]
    /\ UNCHANGED <<cstr, decay, rest>>

\* return cum_dct
MorrisReturn ==
    /\ morris.pc = "return"
    /\ morris' = [morris EXCEPT !.pc = "done"]
    /\ UNCHANGED <<cstr, decay, rest>>

(***************************************************************************)
(* stats._update_nan, morris_analysis and sobol_analysis.                  *)
(***************************************************************************)
\* float('nan'), and the entries of a result table
NaN == <<>>
Values == {NaN, Num(1), Num(3)}

\* model.table: rows of <<the parameter's value, the metric's value>>
NCols == 2
Tables == [1..MaxRows -> [1..NCols -> Values]]
Policies == {"propagate", "raise", "fill_mean", "omit", "drop"}

\* df.dropna(): the rows without NaN
Dropna(df) == SelectSeq(df, LAMBDA row : \A j \in 1..Len(row) : row[j] # NaN)

\* df.mean() of a frame without NaN: per column, NaN for a frame without rows
Mean(df, ncols) ==
    [j \in 1..ncols |->
        IF Len(df) = 0 THEN NaN
        ELSE RDiv(RSum([i \in 1..Len(df) |-> df[i][j]]), Num(Len(df)))]

\* df.fillna(value): NaN entries replaced by the value of their column
Fillna(df, value) ==
    [i \in 1..Len(df) |->
        [j \in 1..Len(df[i]) |->
            IF df[i][j] = NaN THEN value[j] ELSE df[i][j]]]

\* _update_nan(df, nan_policy, legit): what it raises and returns ('nan'
\* or a frame)
_update_nan(df, nan_policy, legit) ==
    IF nan_policy \notin legit
    THEN [raises |-> "ValueError", str |-> FALSE, df |-> None]
    ELSE IF nan_policy = "propagate"
    THEN [raises |-> "none", str |-> TRUE, df |-> None]
    ELSE IF nan_policy = "raise"
    THEN [raises |-> "ValueError", str |-> FALSE, df |-> None]
    ELSE IF nan_policy = "omit"
    THEN [raises |-> "none", str |-> FALSE, df |-> Dropna(df)]
    ELSE IF nan_policy = "fill_mean"
    THEN [raises |-> "none", str |-> FALSE,
          df |-> Fillna(df, Mean(Dropna(df), IF Len(df) = 0 THEN 0
                                             ELSE Len(df[1])))]
    ELSE [raises |-> "none", str |-> FALSE, df |-> df]

\* the legit of both analyses
Legit == {"propagate", "raise", "fill_mean"}

\* the frame each analysis hands to _update_nan: the whole table in
\* morris_analysis, the metric columns in sobol_analysis
Frame(fn, table) ==
    IF fn = "morris_analysis" THEN table
    ELSE [i \in 1..Len(table) |-> <<table[i][NCols]>>]

\* one call of morris_analysis / sobol_analysis, up to the analysis of the
\* table
Analyse(fn, table, nan_policy) ==
    LET df == Frame(fn, table)
        r == _update_nan(df, nan_policy, Legit)
    IN  /\ analysis = None
        /\ analysis' = [fn |-> fn, nan_policy |-> nan_policy, df |-> df,
                        used |-> IF r.raises # "none" THEN None
                                 ELSE IF r.str THEN df ELSE r.df,
                        err |-> r.raises]
        /\ UNCHANGED <<cstr, decay, morris, thickener, indicators>>

(***************************************************************************)
(* BeltThickener (qsdsan/sanunits/_sludge_handling.py).                    *)
(***************************************************************************)
\* math.ceil(a/b) for integers a >= 0 and b > 0
Ceil(a, b) == (a + b - 1) \div b

\* obj.name for an attribute the object may not have: <<value>>, or None
\* where Python raises AttributeError
Getattr(obj, name) ==
    IF name \in DOMAIN obj /\ obj[name] # None THEN obj[name] ELSE None

\* _run, as far as the design is concerned: the inlets mixed into _mixed,
\* F_vol the flow of the mix [m3/hr]
ThickenerRun(F_vol) ==
    /\ thickener' = [thickener EXCEPT !.F_vol = F_vol, !.read = None]
    /\ UNCHANGED <<cstr, decay, morris, analysis, indicators>>

\* the attribute max_capacity
SetMaxCapacity(c) ==
    /\ thickener' = [thickener EXCEPT !.max_capacity = c, !.read = None]
    /\ UNCHANGED <<cstr, decay, morris, analysis, indicators>>

\* BeltThickener._design
Design ==
    LET N == Ceil(thickener.F_vol, thickener.max_capacity)
    IN  /\ thickener' = [thickener EXCEPT
               !._N_thickener = <<N>>,
               !.design_results = <<N>>,
               !.baseline_purchase_costs = <<4000 * N>>,
               !.power_utility = RMul(thickener.power_demand, Num(N)),
               !.read = None]
        /\ UNCHANGED <<cstr, decay, morris, analysis, indicators>>

\* the property N_thickener: return self._N
N_thickener ==
    LET v == Getattr(thickener, "_N")
    IN  /\ thickener' = [thickener EXCEPT !.read =
               IF v = None THEN [err |-> "AttributeError", ret |-> None]
               ELSE [err |-> "none", ret |-> v]]
        /\ UNCHANGED <<cstr, decay, morris, analysis, indicators>>

(***************************************************************************)
(* ImpactIndicator (sanitation/_impact_indicator.py).                      *)
(***************************************************************************)
\* the names used as IDs and synonyms
Names == {"GlobalWarming", "GWP", "FossilEnergy", "FEC"}

\* what load_data(path=data_path) can return: the index and the synonym
\* column of the data file
DefaultTables ==
    { << [ID |-> "GlobalWarming", synonym |-> "GWP"] >>,
      << [ID |-> "GlobalWarming", synonym |-> "nan"],
         [ID |-> "FossilEnergy", synonym |-> "FEC"] >> }

\* dct[key] = value
SetItem(dct, key, value) ==
    [k \in DOMAIN dct \cup {key} |-> IF k = key THEN value ELSE dct[k]]

\* (no key is ever found in use)
InUse_Never(dct, key) == FALSE

\* key in cls._indicators.keys()
InUse(dct, key) == key \in DOMAIN dct

\* (a synonym in use is rejected even when it is this indicator's)
set_synonym_RejectsOwn(dct, self, synonym) ==
    IF synonym \in DOMAIN dct
    THEN [raises |-> "ValueError", dct |-> dct]
    ELSE [raises |-> "none", dct |-> SetItem(dct, synonym, self)]

\* (a synonym in use by another indicator is taken over)
set_synonym_Steals(dct, self, synonym) ==
    [raises |-> "none", dct |-> SetItem(dct, synonym, self)]

\* set_synonym(self, synonym) on the registry dct: what it raises and the
\* registry it leaves
set_synonym(dct, self, synonym) ==
    IF synonym \in DOMAIN dct /\ dct[synonym] # self
    THEN [raises |-> "ValueError", dct |-> dct]
    ELSE [raises |-> "none", dct |-> SetItem(dct, synonym, self)]

\* the heap after set_synonym(self, synonym) has registered the synonym
Registered(h, self, synonym) ==
    [h EXCEPT ![self].synonyms = @ \cup {synonym}]

\* ImpactIndicator.__new__(cls, ID, synonym) on the registry dct and the
\* objects h: what it raises, the registry and the objects it leaves, the
\* new object
__new__(dct, h, ID, synonym) ==
    IF InUse(dct, ID)
    THEN [raises |-> "ValueError", dct |-> dct, heap |-> h, self |-> 0]
    ELSE LET self == Len(h) + 1
             h1 == Append(h, [_ID |-> ID, synonyms |-> {}])
             dct1 == SetItem(dct, ID, self)
             r == set_synonym(dct1, self, synonym)
         IN  IF synonym = "" \/ synonym = "nan"
             THEN [raises |-> "none", dct |-> dct1, heap |-> h1,
                   self |-> self]
             ELSE IF r.raises # "none"
             THEN [raises |-> r.raises, dct |-> r.dct, heap |-> h1,
                   self |-> self]
             ELSE [raises |-> "none", dct |-> r.dct,
                   heap |-> Registered(h1, self, synonym), self |-> self]

\* get_synonym(self): the keys of the registry that map to self
get_synonym(dct, self) == {k \in DOMAIN dct : dct[k] = self}

\* the loop of load_default_indicators from row i of data on
RECURSIVE LoadFrom(_, _, _, _)
LoadFrom(data, i, dct, h) ==
    IF i > Len(data) THEN [raises |-> "none", dct |-> dct, heap |-> h]
    ELSE IF InUse(dct, data[i].ID) THEN LoadFrom(data, i + 1, dct, h)
    ELSE LET r == __new__(dct, h, data[i].ID, data[i].synonym)
         IN  IF r.raises # "none"
             THEN [raises |-> r.raises, dct |-> r.dct, heap |-> r.heap]
             ELSE LoadFrom(data, i + 1,
                           SetItem(r.dct, data[i].ID, r.self), r.heap)

\* ImpactIndicator.load_default_indicators(); the first call is the one
\* that ends the module
Load_default_indicators ==
    \E data \in IF _default_data # None THEN {_default_data[1]}
                 ELSE DefaultTables :
    \E r \in {LoadFrom(data, 1, _indicators, heap)} :
        /\ Len(r.heap) <= MaxIndicators
        /\ _indicators' = r.dct
        /\ heap' = r.heap
        /\ _default_data' = IF r.raises = "none" THEN <<data>>
                            ELSE _default_data
        /\ lca' = [op |-> "load_default_indicators", self |-> 0,
                   ID |-> "", synonym |-> "", before |-> _indicators,
                   err |-> r.raises, ret |-> {}]
        /\ UNCHANGED <<cstr, decay, morris, analysis, thickener>>

\* ImpactIndicator(ID, synonym=synonym), once the module is imported
ImpactIndicator(ID, synonym) ==
    \E r \in {__new__(_indicators, heap, ID, synonym)} :
        /\ _default_data # None
        /\ Len(r.heap) <= MaxIndicators
        /\ _indicators' = r.dct
        /\ heap' = r.heap
        /\ lca' = [op |-> "__new__", self |-> r.self, ID |-> ID,
                   synonym |-> synonym, before |-> _indicators,
                   err |-> r.raises, ret |-> {}]
        /\ UNCHANGED <<cstr, decay, morris, analysis, thickener,
                       _default_data>>

\* self.set_synonym(synonym) on an indicator that exists
Set_synonym(self, synonym) ==
    \E r \in {set_synonym(_indicators, self, synonym)} :
        /\ _default_data # None
        /\ self \in 1..Len(heap)
        /\ _indicators' = r.dct
        /\ heap' = IF r.raises = "none"
                   THEN Registered(heap, self, synonym) ELSE heap
        /\ lca' = [op |-> "set_synonym", self |-> self,
                   ID |-> heap[self]._ID, synonym |-> synonym,
                   before |-> _indicators, err |-> r.raises, ret |-> {}]
        /\ UNCHANGED <<cstr, decay, morris, analysis, thickener,
                       _default_data>>

\* self.get_synonym() on an indicator that exists
Get_synonym(self) ==
    /\ _default_data # None
    /\ self \in 1..Len(heap)
    /\ lca' = [op |-> "get_synonym", self |-> self, ID |-> heap[self]._ID,
               synonym |-> "", before |-> _indicators, err |-> "none",
               ret |-> get_synonym(_indicators, self)]
    /\ UNCHANGED <<cstr, decay, morris, analysis, thickener, _indicators,
                   _default_data, heap>>

\* ImpactIndicator.get_all_indicators()
Get_all_indicators ==
    /\ _default_data # None
    /\ lca' = [op |-> "get_all_indicators", self |-> 0, ID |-> "",
               synonym |-> "", before |-> _indicators, err |-> "none",
               ret |-> {_indicators[k] : k \in DOMAIN _indicators}]
    /\ UNCHANGED <<cstr, decay, morris, analysis, thickener, _indicators,
                   _default_data, heap>>

(***************************************************************************)
(* The specification.                                                      *)
(***************************************************************************)
\* the arguments of the calls
Pressures == {<<1013, 1000>>, Num(2)}

Next ==
    \/ \E m \in Models \cup {"None"} : SetModel(m)
    \/ \E t \in Temps : SetT(t)
    \/ \E P \in Pressures : SetHeadspaceP(P)
    \/ \E b \in BOOLEAN : SetFixedHeadspaceP(b)
    \/ \E arr \in StateArgs : SetState(arr)
    \/ InitState(0)
    \/ CompileODE
    \/ ODE
    \/ \E x \in Inputs : Eval(x)

Spec == Init /\ [][Next]_vars

\* ideal_gas_law alone, at every operation temperature
GasArgs == {Rat(n, d) : n \in 0..MaxGasNum, d \in {1, 4, 1000}}

NextGas ==
    \/ \E t \in Temps : SetT(t)
    \/ \E S \in GasArgs : IdealGasLaw(None, S)
    \/ \E p \in GasArgs : IdealGasLaw(p, None)

SpecGas == Init /\ [][NextGas]_vars

\* a simulation run: the model is bound at setup, before the state is
\* initialized; the state is then initialized or assigned, the derivative
\* function compiled and evaluated, and the state projected onto the outlet
\* streams
NextOut ==
    \/ \E m \in Models \cup {"None"} : _state = None /\ SetModel(m)
    \/ \E arr \in StateArgs : SetState(arr)
    \/ InitState(0)
    \/ ODE
    \/ \E x \in Inputs : Eval(x)
    \/ UpdateState

SpecOut == Init /\ [][NextOut]_vars

\* the same, with the temperature set at any time
NextVapor ==
    \/ NextOut
    \/ \E t \in Temps : SetT(t)

SpecVapor == Init /\ [][NextVapor]_vars

\* the decay units run on any waste, their attributes set between runs
NextDecay ==
    \/ \E u \in Units, b \in BOOLEAN : SetCaptureBiogas(u, b)
    \/ \E u \in Units, b \in BOOLEAN : SetN2OEmission(u, b)
    \/ \E u \in Units, w \in Wastes : Run(u, w)

SpecDecay == Init /\ [][NextDecay]_vars

\* one call of morris_till_convergence
NextMorris ==
    \/ \E N_max \in 2..MaxTraj, si \in Analyses : MorrisStart(N_max, si)
    \/ \E si \in Analyses : MorrisIterate(si)
    \/ MorrisReturn

SpecMorris == Init /\ [][NextMorris]_vars

\* one call of morris_analysis or sobol_analysis on any table
NextNan ==
    \E fn \in {"morris_analysis", "sobol_analysis"}, table \in Tables,
       nan_policy \in Policies : Analyse(fn, table, nan_policy)

SpecNan == Init /\ [][NextNan]_vars

\* the thickener run, configured, designed and asked for N_thickener
NextThickener ==
    \/ \E F_vol \in {25 * k : k \in 0..MaxFlow} : ThickenerRun(F_vol)
    \/ \E c \in {50, 100} : SetMaxCapacity(c)
    \/ Design
    \/ N_thickener

SpecThickener == Init /\ [][NextThickener]_vars

\* the module imported, then indicators created (the synonym argument a
\* name, the default '' or the 'nan' of an empty cell), given synonyms and
\* listed
NextIndicators ==
    \/ Load_default_indicators
    \/ \E ID \in Names, synonym \in Names \cup {"", "nan"} :
           ImpactIndicator(ID, synonym)
    \/ \E self \in 1..MaxIndicators, synonym \in Names :
           Set_synonym(self, synonym)
    \/ \E self \in 1..MaxIndicators : Get_synonym(self)
    \/ Get_all_indicators

SpecIndicators == Init /\ [][NextIndicators]_vars

(***************************************************************************)
(* The claims.                                                             *)
(***************************************************************************)
\* the length n + k + 1 of the layout of the bound model
LayoutLen == NCmps + Len(BiogasIdx(_model)) + 1

C2_SetterRaisesValueError ==
    [][\A arr \in StateArgs :
          SetState(arr) =>
              /\ \/ err' = "ValueError" /\ _state' = _state
                 \/ err' = "none" /\ _state' = arr
              /\ (_state_keys # None =>
                      (err' = "none" <=> Len(arr) = Len(_state_keys)))]_vars

\* C3: ideal_gas_law(S=S) is S*R*T, ideal_gas_law(p=p) is p/(R*T), and
\* ideal_gas_law(p=ideal_gas_law(S=S)) is S, for every S >= 0
C3_RoundTrip ==
    /\ (op[1] = "ideal_gas_law_S" =>
            /\ ret = RMul(op[2], RMul(R, T))
            /\ ideal_gas_law(ret, None) = op[2])
    /\ (op[1] = "ideal_gas_law_p" => ret = RDiv(op[2], RMul(R, T)))

\* the last operation was an evaluation of the function that
\* AnaerobicCSTR._compile_ODE compiled, and it got as far as the call named
Evaluated(call) ==
    /\ op[1] = "dy_dt"
    /\ _ODE[1].kind = "AnaerobicCSTR"
    /\ \E i \in DOMAIN calls : calls[i] = call

\* that evaluation's arguments, and the buffer its function writes to
EvalQC == QCVec(op[2][1], Len(_state))
EvalS_liq == Slice(EvalQC, 0, NCmps)
EvalS_gas == Slice(EvalQC, NCmps, NCmps + _ODE[1].n_gas)
EvalQ == EvalQC[Len(EvalQC)]
EvalS_in == [i \in Cmps |-> RDiv(InConc(op[2][1])[i], Num(1000))]
EvalQ_in == InQ(op[2][1])
EvalRhos == Rhos(_ODE[1].model, op[2][1])
EvalBuf == IF _ODE[1].buf_is = "shared" THEN _dstate ELSE _ODE[1].buf

\* sum of S_gas[j]*R*Tc over the gas slots
RECURSIVE PartialPressures(_, _, _)
PartialPressures(S_gas, Tc, j) ==
    IF j = 0 THEN Zero
    ELSE RAdd(RMul(S_gas[j], RMul(R, Tc)), PartialPressures(S_gas, Tc, j - 1))

\* C4: in variable-headspace-pressure mode the closure sets the headspace
\* pressure to sum(S_gas*R*T) + p_vapor and the gas outflow to
\* pipe_resistance * (P - external_P); with all gas concentrations zero the
\* pressure is exactly p_vapor
C4_VariablePressure ==
    Evaluated("f_qgas") /\ ~_ODE[1].fixed =>
        LET P == RAdd(PartialPressures(EvalS_gas, _ODE[1].T, Len(EvalS_gas)),
                      p_vapor(TRUE))
        IN  /\ _P_gas = P
            /\ _q_gas = RMul(_k_p, RSub(P, _P_atm))
            /\ ((\A j \in DOMAIN EvalS_gas : EvalS_gas[j] = Zero) =>
                    /\ _P_gas = RMul(Psat(T), PaToBar)
                    /\ _q_gas = RMul(_k_p, RSub(RMul(Psat(T), PaToBar), _P_atm)))

\* a variable-mode evaluation of the three-gas model with an empty headspace
C4_Witness ==
    /\ Evaluated("f_qgas")
    /\ ~_ODE[1].fixed
    /\ err = "none"
    /\ EvalS_gas = <<Zero, Zero, Zero>>
    /\ _P_gas = RMul(Psat(T), PaToBar)

\* the evaluation is one of a reactor whose layout, state and compiled
\* function agree on the three-gas model
Consistent ==
    /\ _model = "adm1"
    /\ _ODE[1].model = "adm1"
    /\ Len(_state) = LayoutLen
    /\ Len(EvalBuf) = LayoutLen

\* C5: in fixed-headspace-pressure mode, with headspace_P above the vapour
\* pressure, the evaluation does not fail and the gas outflow is
\* R*T/(headspace_P - p_vapor) * V_liq * sum(rate_i * mass-to-mole factor_i)
\* over the three biogas-producing rates
C5_FixedPressure ==
    /\ Evaluated("f_qgas")
    /\ _ODE[1].fixed
    /\ Consistent
    /\ RPos(RSub(_P_gas, p_vapor(TRUE)))
    => /\ err = "none"
       /\ _q_gas = RMul(RMul(RDiv(RMul(R, _ODE[1].T),
                                  RSub(_P_gas, p_vapor(TRUE))),
                             Num(V_liq)),
                        RSum(Products(Last3(EvalRhos), _ODE[1].conv)))

\* C6: after a variable-mode evaluation, headspace_P is the pressure that
\* mode computed; the fixed closure on the same rates and gas concentrations
\* yields the same gas outflow
C6_Crossover ==
    /\ Evaluated("f_qgas")
    /\ ~_ODE[1].fixed
    /\ Consistent
    /\ err = "none"
    /\ RPos(RSub(_P_gas, p_vapor(TRUE)))
    => LET fixed == f_q_gas_fixed_P_headspace(Last3(EvalRhos), EvalS_gas,
                                              _ODE[1].T)
       IN  fixed.err = "none" /\ fixed.q = _q_gas

\* the three terms of the liquid balance of component i in that evaluation
InflowTerm(i) == RDiv(RMul(EvalQ_in, EvalS_in[i]), Num(V_liq))
OutflowTerm(i) == RDiv(RMul(EvalQ, EvalS_liq[i]), Num(V_liq))
ReactionTerm(i) == DotT(Stoichio(_ODE[1].model), EvalRhos)[i]

\* C7: with all retention fractions zero and all reaction rates zero, one
\* evaluation writes (Q_in*S_in - Q*S_liq)/V_liq for every liquid component
\* into the liquid segment of the derivative buffer, S_in being the inlet
\* concentration times 1e-3
C7_FlowThroughLiquid ==
    /\ Evaluated("write_liquid")
    /\ \A i \in Cmps : _ODE[1].f_rtn[i] = Zero
    /\ \A j \in DOMAIN EvalRhos : EvalRhos[j] = Zero
    => \A i \in Cmps :
           EvalBuf[i] =
               RDiv(RSub(RMul(EvalQ_in, RDiv(InConc(op[2][1])[i], Num(1000))),
                         RMul(EvalQ, EvalS_liq[i])),
                    Num(V_liq))

\* an evaluation without retention and with zero rates, on a nonzero inflow
\* and a nonzero liquid concentration
C7_Witness ==
    /\ Evaluated("write_liquid")
    /\ err = "none"
    /\ retain_cmps = {}
    /\ \A j \in DOMAIN EvalRhos : EvalRhos[j] = Zero
    /\ \E i \in Cmps : EvalS_in[i] # Zero /\ EvalS_liq[i] # Zero

\* C8: retention scales only the outflow term: the derivative of a component
\* with retention fraction r is inflow - (1-r)*outflow + reaction, with the
\* inflow and the reaction term those of the non-retained case; the fraction
\* is 0.95 for the components named in retain_cmps and exactly 0 for the
\* others
C8_RetentionOutflowOnly ==
    /\ \A i \in Cmps : _f_retain[i] = IF i \in retain_cmps
                                      THEN Fraction_retain ELSE Zero
    /\ (Evaluated("write_liquid") =>
            \A i \in Cmps :
               LET r == _ODE[1].f_rtn[i]
               IN  /\ r = _f_retain[i]
                   /\ EvalBuf[i] =
                          RAdd(RSub(InflowTerm(i),
                                    RMul(OutflowTerm(i), RSub(One, r))),
                               ReactionTerm(i)))

\* an evaluation with a retained component that flows in, is present in the
\* liquid and reacts
C8_Witness ==
    /\ Evaluated("write_liquid")
    /\ err = "none"
    /\ \E i \in retain_cmps :
          /\ _ODE[1].f_rtn[i] = Fraction_retain
          /\ InflowTerm(i) # Zero
          /\ OutflowTerm(i) # Zero
          /\ ReactionTerm(i) # Zero

\* C9: on a reactor constructed with no kinetic model, state initialization
\* completes without raising and stores a state
C9_UnboundInitState ==
    _model = "None" /\ _n_gas = None /\ op[1] = "_init_state" =>
        err = "none" /\ _state # None

\* the calls of the last evaluation that are calls of the kinetic model, and
\* the positions of its writes to the derivative buffer
IsKineticCall(c) == c \in {"params_eval", "stoichio_eval", "rate_function"}
IsWrite(c) == c \in {"write_liquid", "write_gas", "write_Q"}

\* C10: every evaluation of the compiled derivative function calls
\* params_eval, then stoichio_eval, then rate_function, each exactly once,
\* and all three before any write to the derivative buffer
C10_KineticCallOrder ==
    op[1] = "dy_dt" /\ _ODE[1].kind = "AnaerobicCSTR" =>
        /\ SelectSeq(calls, IsKineticCall)
               = <<"params_eval", "stoichio_eval", "rate_function">>
        /\ \A i, j \in DOMAIN calls :
               IsWrite(calls[i]) /\ IsKineticCall(calls[j]) => j < i

\* an evaluation that made the three calls and then wrote the whole buffer
C10_Witness ==
    /\ Evaluated("write_Q")
    /\ err = "none"
    /\ Len(SelectSeq(calls, IsKineticCall)) = 3
    /\ Len(SelectSeq(calls, IsWrite)) = 3

\* C11: an evaluation of a reactor bound to a model with k biogas components
\* writes -q_gas*S_gas_i/V_gas + rate_biogas_i*(V_liq/V_gas)*factor_i into
\* each of the k gas slots (positions n..n+k-1) of the derivative buffer,
\* q_gas being the value the active closure returned in that evaluation
C11_GasBalance ==
    Evaluated("f_qgas") /\ Consistent =>
        /\ err = "none"
        /\ \A j \in 1..Len(BiogasIdx(_model)) :
               EvalBuf[NCmps + j] =
                   RAdd(RNeg(RDiv(RMul(_q_gas, EvalS_gas[j]), Num(V_gas))),
                        RMul(RMul(Last3(EvalRhos)[j],
                                  RDiv(Num(V_liq), Num(V_gas))),
                             _ODE[1].conv[j]))

C13_StrategySelectedOnce ==
    [][/\ (_ODE = None /\ _ODE' # None /\ _ODE'[1].kind = "AnaerobicCSTR"
              => _ODE'[1].fixed = _fixed_P_gas)
       /\ (_ODE # None =>
              /\ \A b \in BOOLEAN : SetFixedHeadspaceP(b) => _ODE' = _ODE
              /\ (ODE => _ODE' = _ODE)
              /\ \A x \in Inputs :
                    Eval(x) /\ _ODE[1].kind = "AnaerobicCSTR"
                            /\ (\E i \in DOMAIN calls' : calls'[i] = "f_qgas")
                    => /\ _ODE'[1].fixed = _ODE[1].fixed
                       /\ IF _ODE[1].fixed
                          THEN _P_gas' = _P_gas
                          ELSE LET S_gas == Slice(QCVec(x, Len(_state)), NCmps,
                                                  NCmps + _ODE[1].n_gas)
                               IN  _P_gas' =
                                     RAdd(PartialPressures(S_gas, _ODE[1].T,
                                                           Len(S_gas)),
                                          p_vapor(TRUE)))]_vars

\* an evaluation, through a function compiled in variable mode, after
\* fixed_headspace_P was set to true
C13_Witness ==
    /\ Evaluated("f_qgas")
    /\ err = "none"
    /\ ~_ODE[1].fixed
    /\ _fixed_P_gas

\* the concentration [M] the projection puts at component i of the gas
\* stream: the headspace concentration of the biogas tracked at i, the cached
\* saturated-vapour concentration at H2O, zero anywhere else
GasConcentration(i) ==
    LET idx == _gas_cmp_idx[1]
    IN  IF i = H2O THEN _S_vapor
        ELSE IF \E j \in DOMAIN idx : idx[j] = i
        THEN _state[NCmps + (CHOOSE j \in DOMAIN idx : idx[j] = i)]
        ELSE Zero

StreamBuffer(b) ==
    CASE b = "liquid_state" -> liquid_state
      [] b = "gas_state" -> gas_state
      [] b = "liquid_dstate" -> liquid_dstate
      [] b = "gas_dstate" -> gas_dstate

\* C15: the projectors allocate a stream's state or derivative buffer only
\* when it is unallocated and overwrite it in place afterwards: no buffer is
\* ever a second array object, an allocated buffer stays the same object in
\* every step, and its length is n+1
C15_InPlace ==
    [][\A b \in DOMAIN allocs :
          /\ allocs'[b] <= 1
          /\ (StreamBuffer(b) # None =>
                 /\ allocs'[b] = allocs[b]
                 /\ StreamBuffer(b)' # None
                 /\ Len(StreamBuffer(b)') = Len(StreamBuffer(b)))
          /\ (StreamBuffer(b)' # None =>
                 allocs'[b] = 1 /\ Len(StreamBuffer(b)') = NCmps + 1)]_vars

\* the state projected a second time, onto the arrays the first projection
\* allocated
C15_Witness ==
    /\ op[1] = "_update_state"
    /\ err = "none"
    /\ projected._update_state = 2
    /\ allocs.liquid_state = 1
    /\ allocs.gas_state = 1
    /\ Len(liquid_state) = NCmps + 1
    /\ Len(gas_state) = NCmps + 1

\* C16: every evaluation of a closure caches the q_gas it computed on the
\* reactor; only the variable closure overwrites the cached headspace
\* pressure, so evaluations in fixed mode leave headspace_P as it was; no
\* evaluation changes external_P or pipe_resistance
C16_ClosureEffects ==
    [][\A x \in Inputs :
          /\ Eval(x)
          /\ _ODE[1].kind = "AnaerobicCSTR"
          /\ _ODE[1].model = "adm1"
          /\ _model = "adm1"
          /\ Len(_state) = LayoutLen
          /\ Len(EvalBuf) = LayoutLen
          /\ \E i \in DOMAIN calls' : calls'[i] = "f_qgas"
          => LET c == _ODE[1]
                 S_gas == Slice(QCVec(x, Len(_state)), NCmps, NCmps + c.n_gas)
                 P_var == RAdd(PartialPressures(S_gas, c.T, Len(S_gas)),
                               p_vapor(TRUE))
                 q_var == RMul(_k_p, RSub(P_var, _P_atm))
                 q_fixed == RMul(RMul(RDiv(RMul(R, c.T),
                                           RSub(_P_gas, p_vapor(TRUE))),
                                      Num(V_liq)),
                                 RSum(Products(Last3(Rhos(c.model, x)),
                                               c.conv)))
             IN  /\ err' = "none"
                 /\ _q_gas' = IF c.fixed THEN q_fixed ELSE q_var
                 /\ _P_gas' = IF c.fixed THEN _P_gas ELSE P_var
                 /\ _P_atm' = _P_atm
                 /\ _k_p' = _k_p]_vars

\* C17: after each completed call of the compiled derivative function the
\* outlet streams reflect that evaluation: the gas stream's derivative holds
\* the derivative of the headspace concentrations at the tracked biogas
\* indices, the liquid stream's derivative the liquid derivative, the liquid
\* stream's state the state QC evaluated, and the gas stream's state ends
\* with the q_gas the evaluation cached
C17_StreamsFollowEvaluation ==
    Evaluated("_update_dstate") /\ err = "none" /\ Consistent =>
        LET idx == _gas_cmp_idx[1]
        IN  /\ gas_dstate # None
            /\ \A j \in DOMAIN idx :
                   gas_dstate[idx[j]] =
                       RMul(EvalBuf[NCmps + j],
                            RDiv(Num(1000), I_mass_over_MW(idx[j])))
            /\ liquid_dstate # None
            /\ \A i \in Cmps :
                   liquid_dstate[i] =
                       RMul(EvalBuf[i],
                            RMul(RSub(One, _f_retain[i]), Num(1000)))
            /\ liquid_state # None
            /\ \A i \in Cmps :
                   liquid_state[i] =
                       RMul(EvalS_liq[i],
                            RMul(RSub(One, _f_retain[i]), Num(1000)))
            /\ gas_state # None
            /\ gas_state[NCmps + 1] = _q_gas

\* C18: whenever an evaluation completes, whatever the order of state
\* initializations, compilations and evaluations before it, the reactor's
\* derivative buffer is the buffer the compiled function wrote into and holds
\* that evaluation's values
C18_DerivativeRetrievable ==
    Evaluated("_update_dstate") /\ err = "none" =>
        /\ _ODE[1].buf_is = "shared"
        /\ \A i \in Cmps :
               _dstate[i] =
                   RAdd(RSub(InflowTerm(i),
                             RMul(OutflowTerm(i),
                                  RSub(One, _ODE[1].f_rtn[i]))),
                        ReactionTerm(i))
        /\ _dstate[Len(_dstate)] = InDQ(op[2][1])

\* C19: after _run of AnaerobicBaffledReactor or AnaerobicDigestion, whatever
\* runs and flag changes came before, the produced CH4 is in exactly one
\* outlet: with if_capture_biogas the biogas outlet carries all of it and the
\* fugitive CH4 outlet is empty, otherwise the fugitive CH4 outlet carries it
\* and the biogas outlet is empty; and without if_N2O_emission the N2O outlet
\* is empty.
C19_OneMethaneOutlet ==
    \A u \in Units :
        ran[u] # None =>
            LET prcd == CH4_prcd(ran[u][1])
                o == outs[u]
            IN  /\ if_capture_biogas[u] =>
                       o.biogas["CH4"] = prcd /\ o.CH4 = EmptyStream
                /\ ~if_capture_biogas[u] =>
                       o.CH4["CH4"] = prcd /\ o.biogas = EmptyStream
                /\ ~if_N2O_emission[u] => o.N2O = EmptyStream

\* a unit has run without biogas capture and without N2O emission: its
\* fugitive outlet carries CH4, its biogas and N2O outlets are empty
C19_Witness ==
    \E u \in Units :
        /\ ran[u] # None
        /\ ~if_capture_biogas[u] /\ ~if_N2O_emission[u]
        /\ RPos(outs[u].CH4["CH4"])
        /\ outs[u].CH4["CH4"] = CH4_prcd(ran[u][1])
        /\ outs[u].biogas = EmptyStream
        /\ outs[u].N2O = EmptyStream

\* the convergence of the docstring for one row of the returned tables:
\* mu_star_conf/mu_star_max < threshold for all parameters of all metrics
ConvergedRow(row) == \A m \in Metrics : RGreater(Threshold, row.worst[m])

\* C20: morris_till_convergence analyses the trajectory counts 2, 3, ... and
\* stops at the first count at which mu_star_conf/mu_star_max < threshold
\* holds for all parameters of all metrics, or at N_max; the tables it
\* returns have one row per analysed count, indexed consecutively from 2 to
\* the count at which it stopped.
C20_StopsAtFirstConvergence ==
    morris.pc = "done" =>
        LET rows == morris.rows
            last == Len(rows)
        IN  /\ \A k \in 1..last : rows[k].n = k + 1
            /\ rows[last].n <= morris.N_max
            /\ \A k \in 1..(last - 1) : ~ConvergedRow(rows[k])
            /\ ConvergedRow(rows[last]) \/ rows[last].n = morris.N_max

\* pandas' mean of column j of df: over the entries that are not NaN
ColumnMean(df, j) ==
    LET vals == SelectSeq([i \in 1..Len(df) |-> df[i][j]],
                          LAMBDA v : v # NaN)
    IN  IF Len(vals) = 0 THEN NaN ELSE RDiv(RSum(vals), Num(Len(vals)))

\* C21: in morris_analysis and sobol_analysis, nan_policy 'raise' raises
\* ValueError if and only if the result table contains NaN; 'propagate' uses
\* the table unchanged; 'fill_mean' replaces NaN entries by the mean of
\* their column; a nan_policy outside the accepted set raises ValueError.
C21_NanPolicy ==
    analysis # None =>
        LET df == analysis.df
            hasNaN == \E i \in 1..Len(df) : \E j \in 1..Len(df[i]) :
                          df[i][j] = NaN
        IN  /\ analysis.nan_policy = "raise" =>
                   (analysis.err = "ValueError" <=> hasNaN)
            /\ analysis.nan_policy = "propagate" =>
                   analysis.err = "none" /\ analysis.used = df
            /\ analysis.nan_policy = "fill_mean" =>
                   /\ analysis.err = "none"
                   /\ analysis.used =
                          [i \in 1..Len(df) |->
                              [j \in 1..Len(df[i]) |->
                                  IF df[i][j] = NaN THEN ColumnMean(df, j)
                                  ELSE df[i][j]]]
            /\ analysis.nan_policy \notin Legit =>
                   analysis.err = "ValueError"

\* C22: after BeltThickener._design has run, the property N_thickener
\* returns the number of thickeners that design step computed (the
\* ceil(mixed flow / max_capacity) it stored in _N_thickener), which is the
\* number in design_results.
C22_N_thickener ==
    thickener._N_thickener # None /\ thickener.read # None =>
        /\ thickener.read.err = "none"
        /\ thickener.read.ret = thickener._N_thickener
        /\ thickener.read.ret = thickener.design_results

\* C23: get_synonym returns exactly the names registered as synonyms of
\* the indicator, through the constructor's synonym argument or through
\* set_synonym, and nothing else.
C23_GetSynonym ==
    lca # None /\ lca.op = "get_synonym" =>
        lca.ret = heap[lca.self].synonyms

\* C26: creating an ImpactIndicator whose ID is already a key of the
\* registry, as an ID or as a synonym, raises ValueError, and the entry of
\* that key still maps to the indicator it mapped to.
C26_DuplicateID ==
    lca # None /\ lca.op = "__new__" /\ lca.ID \in DOMAIN lca.before =>
        /\ lca.err = "ValueError"
        /\ lca.ID \in DOMAIN _indicators
        /\ _indicators[lca.ID] = lca.before[lca.ID]

\* a construction was rejected whose ID is in use as another indicator's
\* synonym
C26_Witness ==
    /\ lca # None /\ lca.op = "__new__"
    /\ lca.ID \in DOMAIN lca.before
    /\ heap[lca.before[lca.ID]]._ID # lca.ID
    /\ lca.err = "ValueError"

\* C27: set_synonym(s) raises ValueError and leaves the registry unchanged
\* when s is registered to a different indicator; otherwise it maps s to
\* this indicator and changes nothing else, and when s already maps to this
\* indicator it changes nothing and does not raise.
C27_SetSynonym ==
    lca # None /\ lca.op = "set_synonym" =>
        IF lca.synonym \in DOMAIN lca.before
              /\ lca.before[lca.synonym] # lca.self
        THEN lca.err = "ValueError" /\ _indicators = lca.before
        ELSE /\ lca.err = "none"
             /\ DOMAIN _indicators = DOMAIN lca.before \cup {lca.synonym}
             /\ _indicators[lca.synonym] = lca.self
             /\ \A k \in DOMAIN lca.before : _indicators[k] = lca.before[k]
             /\ lca.synonym \in DOMAIN lca.before =>
                    _indicators = lca.before

\* set_synonym was called again with a synonym the indicator already had,
\* a name other than its ID
C27_Witness ==
    /\ lca # None /\ lca.op = "set_synonym"
    /\ lca.synonym \in DOMAIN lca.before
    /\ lca.before[lca.synonym] = lca.self
    /\ lca.synonym # heap[lca.self]._ID
    /\ lca.err = "none"
    /\ _indicators = lca.before

\* C28: after any constructions, set_synonym calls and
\* load_default_indicators calls, failed or not: every key of the registry
\* maps to one indicator, every indicator of get_all_indicators has its own
\* ID registered to itself, the last operation removed or remapped no
\* entry, and the get_synonym lists of two distinct indicators are
\* disjoint.
C28_RegistryInvariant ==
    LET all == {_indicators[k] : k \in DOMAIN _indicators}
    IN  /\ \A k \in DOMAIN _indicators : _indicators[k] \in 1..Len(heap)
        /\ \A i \in all :
               /\ heap[i]._ID \in DOMAIN _indicators
               /\ _indicators[heap[i]._ID] = i
        /\ lca # None =>
               \A k \in DOMAIN lca.before :
                   /\ k \in DOMAIN _indicators
                   /\ _indicators[k] = lca.before[k]
        /\ \A i, j \in all :
               i # j => get_synonym(_indicators, i)
                           \cap get_synonym(_indicators, j) = {}

\* a construction failed on its synonym, and a set_synonym failed before:
\* three indicators are registered, one of them by the failed construction
C28_Witness ==
    /\ lca # None /\ lca.op = "__new__"
    /\ lca.err = "ValueError"
    /\ lca.ID \notin DOMAIN lca.before
    /\ Cardinality({_indicators[k] : k \in DOMAIN _indicators}) >= 3

\* C29: whenever the constructor raises ValueError, for a duplicate ID or
\* for a synonym in use by another indicator, the registry is as it was
\* before the call, without an entry for the rejected indicator.
C29_AtomicConstruction ==
    lca # None /\ lca.op = "__new__" /\ lca.err = "ValueError" =>
        /\ _indicators = lca.before
        /\ lca.self # 0 =>
               \A k \in DOMAIN _indicators : _indicators[k] # lca.self

\* C24: whatever setters ran before, T after the model was bound included,
\* the saturated-vapour concentration a projection writes to the gas stream
\* is p_vapor(T)/(R*T) at the reactor's current T (times chem_MW/i_mass*1e3
\* as every component of the stream), the temperature of the vapour
\* pressure the closures use.
C24_VaporAtCurrentT ==
    op[1] = "_update_state" /\ err = "none" =>
        /\ _S_vapor = RDiv(RDiv(p_vapor(TRUE), R), T)
        /\ gas_state[H2O] =
               RMul(RDiv(RDiv(p_vapor(TRUE), R), T),
                    RDiv(Num(1000), I_mass_over_MW(H2O)))

====
